---- MODULE Spec2Model ----
(***************************************************************************)
(* Model of DL_rec_togg_sns.py: the outer driver, main(), connect_dev,      *)
(* find_port_sns, toggle_sns, read_sensor_data and the result-file          *)
(* functions write_data_to_file / verify_data_written.                      *)
(*                                                                         *)
(* The vendor SDK (PortHandler / PacketHandler) and pyserial are the        *)
(* environment: every transaction returns a communication result and a      *)
(* device error chosen nondeterministically, and every call that touches    *)
(* the serial device may raise.                                             *)
(***************************************************************************)
EXTENDS Integers, Sequences, FiniteSets, TLC

(***************************************************************************)
(* Bounds of the model.                                                     *)
(***************************************************************************)
\* device names that comports() may report to connect_dev under LocatorSpec
MaxDev == 3
\* device names that comports() may report inside the whole program (Spec)
MaxDevMain == 1
\* registry entries whose read differs from a plain "other sensor" read,
\* under ResolverSpec
MaxSpecial == 2
\* the same, inside the whole program (Spec)
MaxSpecialMain == 1
\* reading pairs in one batch handed to write_data_to_file
MaxPairs == 2
\* calls of write_data_to_file in one behaviour of SinkSpec
MaxAppends == 2

(***************************************************************************)
(* Constants of the program.                                                *)
(***************************************************************************)
DXL_ID == 171
DX_RESET_CMD == 23
DX_MEAS_START_STOP == 24
DX_SENSORS_DATA_FIRST == 85
SNS_ETHANOL_ID == 46
RANGE_1 == 1

PORT_REGISTERS_RANGES ==
    << [name |-> "Port1",  SNS_ID |-> 51, SEL_RANGE |-> 53],
       [name |-> "Port2",  SNS_ID |-> 55, SEL_RANGE |-> 57],
       [name |-> "Port3",  SNS_ID |-> 59, SEL_RANGE |-> 61],
       [name |-> "Port4",  SNS_ID |-> 63, SEL_RANGE |-> 65],
       [name |-> "Port1S", SNS_ID |-> 67, SEL_RANGE |-> 69],
       [name |-> "Port2S", SNS_ID |-> 71, SEL_RANGE |-> 73],
       [name |-> "Port3S", SNS_ID |-> 75, SEL_RANGE |-> 77],
       [name |-> "Port4S", SNS_ID |-> 79, SEL_RANGE |-> 81] >>

\* class CommunicationStatus(Enum): the values the enum accepts
SUCCESS == 0
RX_TIMEOUT == 0 - 3001
CRC_ERROR == 0 - 3002
BUSY == 0 - 3003
CommunicationStatus == {SUCCESS, RX_TIMEOUT, CRC_ERROR, BUSY}

\* class DeviceError(Enum): the values the enum accepts
VOLTAGE_ERROR == 1
OVERHEATING == 2
MOTOR_OVERLOAD == 3
DeviceError == {VOLTAGE_ERROR, OVERHEATING, MOTOR_OVERLOAD}

\* COMM_SUCCESS of the SDK, the value every "!= COMM_SUCCESS" test compares to
COMM_SUCCESS == SUCCESS

\* Enum(value) raises ValueError when value is not a member's value
EnumRaises(enum, value) == value \notin enum

(***************************************************************************)
(* What the bus can answer.  Besides the statuses the enum knows, the SDK   *)
(* reports other communication results (a transmit failure, for one), and   *)
(* the device other error codes than the three the enum knows.              *)
(***************************************************************************)
\* the SDK's result for a failed transmission, one the enum does not list
OtherCommError == 0 - 1001
UnknownDeviceCode == MOTOR_OVERLOAD + 1
CommResults == CommunicationStatus \cup {OtherCommError}
DeviceCodes == {0} \cup DeviceError \cup {UnknownDeviceCode}

\* Python's None, and the values main holds in its place
None == [t |-> "None"]
PortHandler(device) == [t |-> "PortHandler", dev |-> device]

(***************************************************************************)
(* Serial endpoints.  A device name is encoded by its rank in the           *)
(* lexicographic order of the names; name 0 stands for an endpoint that is  *)
(* not a /dev/cu.usbserial* one (it sorts before them), 1.. for usbserial   *)
(* endpoints.                                                               *)
(***************************************************************************)
pattern_match(device) == device >= 1

RECURSIVE InsertSorted(_, _)
InsertSorted(s, x) ==
    IF s = <<>> THEN <<x>>
    ELSE IF x < Head(s) THEN <<x>> \o s
    ELSE <<Head(s)>> \o InsertSorted(Tail(s), x)

\* the list taken as comports() returns it, the sort left out
unsorted(s) == s

\* sorted(comports(), key=lambda p: p.device)
RECURSIVE sorted(_)
sorted(s) == IF s = <<>> THEN <<>> ELSE InsertSorted(sorted(Tail(s)), Head(s))

\* the lists comports() may return: distinct names, in any order
ComportLists(maxDev) ==
    { l \in UNION { [1..n -> 0..maxDev] : n \in 0..(maxDev + 1) } :
        \A a, b \in DOMAIN l : a # b => l[a] # l[b] }

\* what happens when one candidate endpoint is tried (lines 95-121)
TryOutcomes == {"serial_error", "open_error", "ping_error", "ping"}

(***************************************************************************)
(* What a read of a sensor-id register can return during the scan of        *)
(* find_port_sns: (value, communication result, device error).  On a        *)
(* failed transaction the SDK hands back the value 0 and no device error.   *)
(***************************************************************************)
OTHER_SNS_ID == SNS_ETHANOL_ID + 1

ReadOutcomes ==
    [comm : {SUCCESS}, err : DeviceCodes, val : {SNS_ETHANOL_ID, OTHER_SNS_ID}]
    \cup [comm : CommResults \ {SUCCESS}, err : {0}, val : {0}]

\* a port that holds some other sensor and answers cleanly
PlainRead == [comm |-> SUCCESS, err |-> 0, val |-> OTHER_SNS_ID]

Entries == 1..Len(PORT_REGISTERS_RANGES)

\* one answer of each kind: used where the scan is a step of the whole
\* program
MainReadOutcomes ==
    { r \in ReadOutcomes : /\ r.comm \in {SUCCESS, RX_TIMEOUT, OtherCommError}
                           /\ r.err \in {0, VOLTAGE_ERROR, UnknownDeviceCode} }

\* the answers of the eight sensor-id registers during one scan: those of
\* the entries in S are given by f, the others are PlainRead
RegContent(S, f) == [j \in Entries |-> IF j \in S THEN f[j] ELSE PlainRead]

NoRegs == [j \in Entries |-> PlainRead]

VARIABLES
    pc,               \* position of the single control flow
    i,                \* the driver's loop variable: pipeline runs completed
    ports,            \* connect_dev: the sorted list being iterated
    k,                \* connect_dev: index of the next element of ports
    tried,            \* connect_dev: endpoints tried so far and what came of it
    openT,            \* transports this run opened and did not close: [dev, kind]
    leaked,           \* an earlier run left a transport open
    portHandler,      \* main: the endpoint of the handle connect_dev returned
    regs,             \* what the sensor-id registers answer during this scan
    idx,              \* find_port_sns: index of the next registry entry
    port_name,        \* main: what find_port_sns returned
    heat,             \* toggle_sns: the loop variable of the heating loop
    ri,               \* read_sensor_data: the loop variable
    sensor_data_pairs,\* main: what read_sensor_data returned
    bus,              \* the transactions issued in this run, in order
    failed,           \* the steps of this run whose transaction failed
    allOk,            \* every transaction of this run succeeded, no error
    file,             \* the result file: NoFile or its content
    sink,             \* the calls of the result-file functions made on their own
    exit_code         \* <<>> while the process runs, then <<its exit status>>

vars == <<pc, i, ports, k, tried, openT, leaked, portHandler, regs, idx, port_name,
          heat, ri, sensor_data_pairs, bus, failed, allOk, file, sink,
          exit_code>>

connectVars == <<ports, k, tried, openT, leaked, portHandler>>
scanVars == <<regs, idx, port_name>>
sessionVars == <<heat, ri, sensor_data_pairs, failed, allOk>>

\* the result file: absent, or present with its content (a sequence of
\* pieces of text, see the result file section)
NoFile == [exists |-> FALSE, content |-> <<>>]

NoSink == [appends |-> 0, last |-> "none", before |-> "none", data |-> <<>>,
           verified |-> "none", first |-> NoFile, written |-> <<>>]

Txn(op, addr, val) == [op |-> op, addr |-> addr, val |-> val]

Init ==
    /\ pc = "driver_for"
    /\ i = 0
    /\ ports = <<>>
    /\ k = 1
    /\ tried = <<>>
    /\ openT = {}
    /\ leaked = FALSE
    /\ portHandler = None
    /\ regs = NoRegs
    /\ idx = 1
    /\ port_name = "None"
    /\ heat = 1
    /\ ri = 0
    /\ sensor_data_pairs = None
    /\ bus = <<>>
    /\ failed = {}
    /\ allOk = TRUE
    /\ file = NoFile
    /\ sink = NoSink
    /\ exit_code = <<>>

(***************************************************************************)
(* connect_dev                                                              *)
(***************************************************************************)
Handle(dev, kind) == [dev |-> dev, kind |-> kind]

\* line 109: the ping answered
ping_found(dxl_comm_result) == dxl_comm_result = COMM_SUCCESS

\* lines 115-116: portHandler.closePort(); ser.close()
close_no_device(open, dev) == open \ {Handle(dev, "ph"), Handle(dev, "ser")}

\* lines 118-121: the handlers of an exception only report it
close_on_error(open, dev) == open

\* the record of one try: the endpoint, what happened, and the ping's result
\* where the ping returned
Tried(dev, o, res) ==
    [dev |-> dev, o |-> o, res |-> IF o = "ping" THEN <<res>> ELSE <<>>]

\* line 92: the list is fetched and sorted once, before the loop
connect_dev_start(maxDev) ==
    /\ pc = "main"
    /\ \E l \in ComportLists(maxDev) : ports' = sorted(l)
    /\ k' = 1
    /\ tried' = <<>>
    /\ pc' = "connect_dev"
    /\ UNCHANGED <<i, openT, leaked, portHandler, scanVars, sessionVars, bus,
                   file, sink, exit_code>>

\* lines 93-121: the body of the loop for one element of the list
connect_dev_try ==
    /\ pc = "connect_dev"
    /\ k <= Len(ports)
    /\ LET dev == ports[k]
           ser == Handle(dev, "ser")
           ph == Handle(dev, "ph")
       IN IF ~pattern_match(dev)
          THEN /\ k' = k + 1
               /\ UNCHANGED <<pc, tried, openT, portHandler, bus, allOk>>
          ELSE \E o \in TryOutcomes, res \in CommResults :
                /\ o # "ping" => res = COMM_SUCCESS
                /\ tried' = Append(tried, Tried(dev, o, res))
                /\                   CASE o = "serial_error" ->
                          \* serial.Serial(...) raises: nothing was opened
                          /\ openT' = close_on_error(openT, dev)
                          /\ k' = k + 1
                          /\ UNCHANGED <<pc, portHandler, bus, allOk>>
                     [] o = "open_error" ->
                          \* setBaudRate / openPort raises after line 97
                          /\ openT' = close_on_error(openT \cup {ser}, dev)
                          /\ k' = k + 1
                          /\ UNCHANGED <<pc, portHandler, bus, allOk>>
                     [] o = "ping_error" ->
                          \* packetHandler.ping raises
                          /\ openT' = close_on_error(openT \cup {ser, ph}, dev)
                          /\ bus' = Append(bus, Txn("ping", dev, 0))
                          /\ k' = k + 1
                          /\ UNCHANGED <<pc, portHandler, allOk>>
                     [] o = "ping" ->
                          /\ bus' = Append(bus, Txn("ping", dev, 0))
                          /\ allOk' = (allOk /\ res = COMM_SUCCESS)
                          /\ IF ping_found(res)
                             THEN /\ openT' = openT \cup {ser, ph}
                                  /\ portHandler' = PortHandler(dev)
                                  /\ pc' = "main_303"
                                  /\ k' = k
                             ELSE /\ openT' = close_no_device(openT \cup {ser, ph}, dev)
                                  /\ k' = k + 1
                                  /\ UNCHANGED <<pc, portHandler>>
    /\ UNCHANGED <<i, ports, leaked, scanVars, heat, ri, sensor_data_pairs,
                   failed, file, sink, exit_code>>

\* lines 123-124: the list is exhausted
connect_dev_not_found ==
    /\ pc = "connect_dev"
    /\ k > Len(ports)
    /\ portHandler' = None
    /\ pc' = "main_303"
    /\ UNCHANGED <<i, ports, k, tried, openT, leaked, scanVars, sessionVars,
                   bus, file, sink, exit_code>>

\* lines 303, 323-324
main_303 ==
    /\ pc = "main_303"
    /\ pc' = IF portHandler # None THEN "find_port_sns" ELSE "driver_prompt"
    /\ ports' = <<>>
    /\ k' = 1
    /\ tried' = <<>>
    /\ UNCHANGED <<i, openT, leaked, portHandler, scanVars, sessionVars, bus,
                   file, sink, exit_code>>

(***************************************************************************)
(* find_port_sns                                                            *)
(***************************************************************************)
\* the loop body with the return of line 154 left out: a match is noted and
\* the scan goes on
scan_verdict_no_exit(r, sns_id_desired) ==
    IF EnumRaises(CommunicationStatus, r.comm) THEN "raise"
    ELSE IF r.comm # SUCCESS THEN "continue"
    ELSE IF r.err # 0 /\ EnumRaises(DeviceError, r.err) THEN "raise"
    ELSE "continue"

\* lines 139-154: what the loop body does with one read
\*   "raise"    CommunicationStatus(...) or DeviceError(...) raises ValueError
\*   "continue" the entry is left, the loop goes on
\*   "return"   the entry's port name is returned
scan_verdict(r, sns_id_desired) ==
    IF EnumRaises(CommunicationStatus, r.comm) THEN "raise"
    ELSE IF r.comm # SUCCESS THEN "continue"
    ELSE IF r.err # 0 /\ EnumRaises(DeviceError, r.err) THEN "raise"
    ELSE IF r.val = sns_id_desired THEN "return"
    ELSE "continue"

\* lines 128-130: the scan begins; the answers of the registers are fixed,
\* at most maxSpecial of them other than PlainRead
find_port_sns_start(maxSpecial, outcomes) ==
    /\ pc = "find_port_sns"
    /\ \E S \in SUBSET Entries :
         /\ Cardinality(S) <= maxSpecial
         /\ \E f \in [S -> outcomes \ {PlainRead}] : regs' = RegContent(S, f)
    /\ idx' = 1
    /\ pc' = "scan"
    /\ UNCHANGED <<i, connectVars, port_name, sessionVars, bus, file, sink, exit_code>>

\* lines 132-154: one pass of the loop, for entry idx
find_port_sns_read ==
    /\ pc = "scan"
    /\ idx <= Len(PORT_REGISTERS_RANGES)
    /\ LET e == PORT_REGISTERS_RANGES[idx]
           r == regs[idx]
           v == scan_verdict(r, SNS_ETHANOL_ID)
       IN /\ bus' = Append(bus, Txn("read2", e.SNS_ID, 0))
          /\ allOk' = (allOk /\ r.comm = SUCCESS /\ r.err = 0)
          /\ CASE v = "raise" ->
                    \* nothing catches ValueError: the process ends
                    /\ pc' = "crashed"
                    /\ exit_code' = <<1>>
                    /\ UNCHANGED <<idx, port_name>>
               [] v = "continue" ->
                    /\ idx' = idx + 1
                    /\ UNCHANGED <<pc, port_name, exit_code>>
               [] v = "return" ->
                    /\ port_name' = e.name
                    /\ pc' = "main_305"
                    /\ UNCHANGED <<idx, exit_code>>
    /\ UNCHANGED <<i, connectVars, regs, heat, ri, sensor_data_pairs, failed, file, sink>>

\* lines 156-158: the registry is exhausted
find_port_sns_not_found ==
    /\ pc = "scan"
    /\ idx > Len(PORT_REGISTERS_RANGES)
    /\ port_name' = "None"
    /\ pc' = "main_305"
    /\ UNCHANGED <<i, connectVars, regs, idx, sessionVars, bus, file, sink, exit_code>>

\* lines 305, 321-322
main_305 ==
    /\ pc = "main_305"
    /\ pc' = IF port_name # "None" THEN "toggle_sns" ELSE "driver_prompt"
    /\ regs' = NoRegs
    /\ idx' = 1
    /\ UNCHANGED <<i, connectVars, port_name, sessionVars, bus, file, sink, exit_code>>

(***************************************************************************)
(* The result file.  Its content is a sequence of pieces of text: "\n",     *)
(* " ", or a text that neither begins nor ends with white space.            *)
(***************************************************************************)
NL == "\n"
SP == " "
SENTINEL == "END OF DATA"

RECURSIVE Spaces(_)
Spaces(n) == IF n <= 0 THEN "" ELSE " " \o Spaces(n - 1)

\* format(v, ">6"): right-aligned in a field of six, longer numbers unpadded
fmt6(v) == Spaces(6 - Len(ToString(v))) \o ToString(v)

\* line 278: f"Pair {index+1}: {pair[0]:>6}, {pair[1]:>6}\n", index from 0
pair_line(index, pair) ==
    << "Pair " \o ToString(index + 1) \o ": " \o fmt6(pair[1]) \o ", "
         \o fmt6(pair[2]), NL >>

RECURSIVE pair_lines(_, _)
pair_lines(data, index) ==
    IF index >= Len(data) THEN <<>>
    ELSE pair_line(index, data[index + 1]) \o pair_lines(data, index + 1)

\* the header written by every call
header_every_call(file_exists) ==
    <<"Sensor Data Pairs", NL, "=================", NL, NL>>

\* lines 274-276: the header, written when the file did not exist
header(file_exists) ==
    IF ~file_exists
    THEN <<"Sensor Data Pairs", NL, "=================", NL, NL>>
    ELSE <<>>

\* line 279: file.write("\nEND OF DATA\n")
trailer == <<NL, SENTINEL, NL>>

\* lines 270-279
write_data_to_file(f, data) ==
    [exists |-> TRUE,
     content |-> f.content \o header(f.exists) \o pair_lines(data, 0) \o trailer]

\* file.readlines(): the content cut after each "\n"
RECURSIVE readlines(_, _)
readlines(content, line) ==
    IF content = <<>> THEN (IF line = <<>> THEN <<>> ELSE <<line>>)
    ELSE IF Head(content) = NL
         THEN <<Append(line, NL)>> \o readlines(Tail(content), <<>>)
         ELSE readlines(Tail(content), Append(line, Head(content)))

\* str.strip(): white space removed at both ends
RECURSIVE lstrip(_)
lstrip(line) ==
    IF line # <<>> /\ Head(line) \in {NL, SP} THEN lstrip(Tail(line)) ELSE line

RECURSIVE rstrip(_)
rstrip(line) ==
    IF line # <<>> /\ line[Len(line)] \in {NL, SP}
    THEN rstrip(SubSeq(line, 1, Len(line) - 1))
    ELSE line

strip(line) == rstrip(lstrip(line))

\* the comparison with strip() left out
is_sentinel_unstripped(line) == line = <<SENTINEL>>

\* line 287: the comparison of the last line with the control string
is_sentinel(line) == strip(line) = <<SENTINEL>>

\* lines 281-287; "IndexError" when readlines() is empty and [-1] raises
verify_data_written(f) ==
    IF ~f.exists THEN "False"
    ELSE LET lines == readlines(f.content, <<>>)
         IN IF lines = <<>> THEN "IndexError"
            ELSE IF is_sentinel(lines[Len(lines)]) THEN "True" ELSE "False"

(***************************************************************************)
(* toggle_sns, read_sensor_data                                             *)
(***************************************************************************)
Port(name) == CHOOSE e \in { PORT_REGISTERS_RANGES[j] : j \in Entries } : e.name = name

Ok(res, err) == res = COMM_SUCCESS /\ err = 0

\* lines 212-214: what toggle_sns does after the range-selection write
after_range_write(dxl_comm_result) ==
    IF dxl_comm_result # COMM_SUCCESS THEN "return" ELSE "heating"

\* lines 306-307: main does not look at what toggle_sns returned
after_toggle_sns(returned_early) == "read_sensor_data"

\* lines 193-214: the range-selection write
toggle_sns_range ==
    /\ pc = "toggle_sns"
    /\ \E res \in CommResults, err \in DeviceCodes :
        /\ bus' = Append(bus, Txn("write2", Port(port_name).SEL_RANGE, RANGE_1))
        /\ allOk' = (allOk /\ Ok(res, err))
        /\ failed' = IF res # COMM_SUCCESS THEN failed \cup {"range"} ELSE failed
        /\ pc' = IF after_range_write(res) = "return"
                 THEN after_toggle_sns(TRUE)
                 ELSE "heating"
    /\ heat' = 1
    /\ ri' = 0
    /\ UNCHANGED <<i, connectVars, scanVars, sensor_data_pairs, file, sink, exit_code>>

\* the passes of the heating loop: range(1, 7)
HEAT_ROUNDS == 6

\* the heating loop with the check of lines 224-230 in force and made
\* fatal: a ping that fails ends toggle_sns
after_heat_ping_fatal(dxl_comm_result, dxl_error) ==
    IF dxl_comm_result # COMM_SUCCESS THEN "return" ELSE "continue"

\* lines 221-230: the result of the ping is not looked at (the check is
\* commented out)
after_heat_ping(dxl_comm_result, dxl_error) == "continue"

\* lines 219-222: one pass of the heating loop: sleep, then ping
toggle_sns_heat ==
    /\ pc = "heating"
    /\ heat <= HEAT_ROUNDS
    /\ \E res \in CommResults, err \in DeviceCodes :
        /\ bus' = Append(bus, Txn("ping", DXL_ID, 0))
        /\ allOk' = (allOk /\ Ok(res, err))
        /\ failed' = IF Ok(res, err) THEN failed ELSE failed \cup {"ping"}
        /\ pc' = IF after_heat_ping(res, err) = "return"
                 THEN after_toggle_sns(TRUE)
                 ELSE IF heat = HEAT_ROUNDS THEN "pause_script" ELSE "heating"
    /\ heat' = heat + 1
    /\ UNCHANGED <<i, connectVars, scanVars, ri, sensor_data_pairs, file, sink,
                   exit_code>>

\* lines 232, 74-76: the operator presses Enter
pause_script ==
    /\ pc = "pause_script"
    /\ pc' = "start_measurement"
    /\ bus' = Append(bus, Txn("confirm", 0, 0))
    /\ UNCHANGED <<i, connectVars, scanVars, sessionVars, file, sink, exit_code>>

\* lines 237-242: the measurement-start write; toggle_sns returns after it
toggle_sns_start ==
    /\ pc = "start_measurement"
    /\ \E res \in CommResults, err \in DeviceCodes :
        /\ bus' = Append(bus, Txn("write1", DX_MEAS_START_STOP, 1))
        /\ allOk' = (allOk /\ Ok(res, err))
        /\ failed' = IF res # COMM_SUCCESS THEN failed \cup {"start"} ELSE failed
        /\ pc' = after_toggle_sns(res # COMM_SUCCESS)
    /\ ri' = 0
    /\ UNCHANGED <<i, connectVars, scanVars, heat, sensor_data_pairs, file, sink,
                   exit_code>>

\* the words read_sensor_data reads: range(3)
DATA_WORDS == 3

\* the check of lines 255-257 left out: a device error does not end the read
after_word_device_error_ignored(dxl_comm_result, dxl_error) ==
    IF dxl_comm_result # COMM_SUCCESS THEN "return" ELSE "input"

\* lines 252-267: what read_sensor_data does with one word
after_word(dxl_comm_result, dxl_error) ==
    IF dxl_comm_result # COMM_SUCCESS THEN "return"
    ELSE IF dxl_error # 0 THEN "return"
    ELSE "input"

\* lines 254, 257 and the end of the function: the value handed to main
read_sensor_data_result(words) == None

\* the 32-bit words a data register may hold: 0x00020001 and 0x7FFF0003
DataWords == { 2 * 2^16 + 1, (2^15 - 1) * 2^16 + 3 }

\* lines 246-259: one word is read; the transaction is recorded with the
\* word it returned (0 when it failed)
read_sensor_data_word ==
    /\ pc = "read_sensor_data"
    /\ ri < DATA_WORDS
    /\ \E res \in CommResults, err \in DeviceCodes, vals_sns \in DataWords :
        /\ bus' = Append(bus, Txn("read4", DX_SENSORS_DATA_FIRST + (ri * 4),
                                   IF Ok(res, err) THEN vals_sns ELSE 0))
        /\ allOk' = (allOk /\ Ok(res, err))
        /\ failed' = IF Ok(res, err) THEN failed ELSE failed \cup {"read"}
        /\ IF after_word(res, err) = "return"
           THEN /\ sensor_data_pairs' = None
                /\ pc' = "main_308"
           ELSE /\ sensor_data_pairs' = sensor_data_pairs
                /\ pc' = "read_input"
    /\ UNCHANGED <<i, connectVars, scanVars, heat, ri, file, sink, exit_code>>

\* lines 266-268: the operator presses Enter; after the last word the
\* function ends without a return statement
read_sensor_data_input ==
    /\ pc = "read_input"
    /\ ri' = ri + 1
    /\ IF ri + 1 = DATA_WORDS
       THEN /\ sensor_data_pairs' = read_sensor_data_result(ri + 1)
            /\ pc' = "main_308"
       ELSE /\ sensor_data_pairs' = sensor_data_pairs
            /\ pc' = "read_sensor_data"
    /\ UNCHANGED <<i, connectVars, scanVars, heat, failed, allOk, bus, file, sink,
                   exit_code>>

(***************************************************************************)
(* main, lines 308-320, and the driver                                      *)
(***************************************************************************)
\* a test for None alone: the empty list passes
is_not_None(v) == v # None

\* "if sensor_data_pairs:": None and the empty list are false
truthy(v) == v # None /\ v.v # <<>>

PyList(v) == [t |-> "list", v |-> v]

\* lines 289-294: deinit_mes_sns issues the measurement-stop write
deinit_mes_sns(log) == Append(log, Txn("write2", DX_MEAS_START_STOP, 0))

\* lines 296-299: recorder_reset issues the reset write
recorder_reset(log) == Append(log, Txn("write1", DX_RESET_CMD, 1))

\* the reset made to depend on the stop: no reset after a failed stop write
deinit_then_reset_if_ok(log, stop_result) ==
    IF stop_result = COMM_SUCCESS
    THEN recorder_reset(deinit_mes_sns(log))
    ELSE deinit_mes_sns(log)

\* lines 317-318: deinit_mes_sns, then recorder_reset, whatever the stop
\* write returned (deinit_mes_sns only reports a failure, line 294)
deinit_and_reset(log, stop_result) == recorder_reset(deinit_mes_sns(log))

\* lines 308-320: the readings are written, verified, and the sensor stopped
main_308 ==
    /\ pc = "main_308"
    /\ IF truthy(sensor_data_pairs)
       THEN /\ file' = write_data_to_file(file, sensor_data_pairs.v)
            /\ IF verify_data_written(file') = "True"
               THEN \E res1 \in CommResults, res2 \in CommResults :
                      /\ bus' = deinit_and_reset(bus, res1)
                      /\ allOk' = (allOk /\ res1 = COMM_SUCCESS /\ res2 = COMM_SUCCESS)
                      /\ failed' = failed
                                     \cup (IF res1 # COMM_SUCCESS THEN {"stop"} ELSE {})
                                     \cup (IF res2 # COMM_SUCCESS THEN {"reset"} ELSE {})
               ELSE UNCHANGED <<bus, allOk, failed>>
       ELSE UNCHANGED <<file, bus, allOk, failed>>
    /\ pc' = "driver_prompt"
    /\ UNCHANGED <<i, connectVars, scanVars, heat, ri, sensor_data_pairs, sink,
                   exit_code>>

\* what the operator may type at the prompt of line 330
Answers == {"", "e", "E", " e ", "x"}

\* .strip().lower() on those answers
strip_lower(alpha) ==
    CASE alpha \in {"e", "E", " e "} -> "e"
      [] OTHER -> alpha

\* the runs of the driver: range(3)
RUNS == 3

\* line 328: for i in range(3), n passes done
loop_continues(n) == n < RUNS

\* line 328-329: the next pass of the driver's loop, or its end
driver_for ==
    /\ pc = "driver_for"
    /\ IF loop_continues(i)
       THEN /\ pc' = "main"
            /\ exit_code' = exit_code
       ELSE /\ pc' = "exited"
            /\ exit_code' = <<0>>
    /\ UNCHANGED <<i, connectVars, scanVars, sessionVars, bus, file, sink>>

\* lines 330-333: main has returned; the operator answers the prompt
driver_prompt ==
    /\ pc = "driver_prompt"
    /\ \E alpha \in Answers :
        IF strip_lower(alpha) = "e"
        THEN /\ pc' = "exited"
             /\ exit_code' = <<0>>
             /\ UNCHANGED <<i, openT, leaked, portHandler, port_name,
                            sensor_data_pairs, bus, failed, allOk>>
        ELSE /\ pc' = "driver_for"
             /\ i' = i + 1
             \* the locals of main are gone, the record of the run starts
             \* anew; nothing closes what the run left open
             /\ leaked' = (leaked \/ openT # {})
             /\ openT' = {}
             /\ portHandler' = None
             /\ port_name' = "None"
             /\ sensor_data_pairs' = None
             /\ bus' = <<>>
             /\ failed' = {}
             /\ allOk' = TRUE
             /\ exit_code' = exit_code
    /\ UNCHANGED <<ports, k, tried, regs, idx, heat, ri, file, sink>>

\* main has returned and nothing refers to its handles any more; the
\* program closes none of them (no closePort() after line 111), so whether
\* they are still open at the prompt is up to the interpreter's finalizers
finalize ==
    /\ pc = "driver_prompt"
    /\ openT # {}
    /\ openT' = {}
    /\ UNCHANGED <<pc, i, ports, k, tried, leaked, portHandler, scanVars,
                   sessionVars, bus, file, sink, exit_code>>

(***************************************************************************)
(* The whole program.                                                       *)
(***************************************************************************)
Next ==
    \/ driver_for
    \/ connect_dev_start(MaxDevMain)
    \/ connect_dev_try
    \/ connect_dev_not_found
    \/ main_303
    \/ find_port_sns_start(MaxSpecialMain, MainReadOutcomes)
    \/ find_port_sns_read
    \/ find_port_sns_not_found
    \/ main_305
    \/ toggle_sns_range
    \/ toggle_sns_heat
    \/ pause_script
    \/ toggle_sns_start
    \/ read_sensor_data_word
    \/ read_sensor_data_input
    \/ main_308
    \/ finalize
    \/ driver_prompt

Spec == Init /\ [][Next]_vars

(***************************************************************************)
(* connect_dev on its own: the first run of the driver has reached line     *)
(* 302, and the behaviour ends when connect_dev returns.                    *)
(***************************************************************************)
LocatorInit ==
    /\ pc = "main"
    /\ i = 0
    /\ ports = <<>>
    /\ k = 1
    /\ tried = <<>>
    /\ openT = {}
    /\ leaked = FALSE
    /\ portHandler = None
    /\ regs = NoRegs
    /\ idx = 1
    /\ port_name = "None"
    /\ heat = 1
    /\ ri = 0
    /\ sensor_data_pairs = None
    /\ bus = <<>>
    /\ failed = {}
    /\ allOk = TRUE
    /\ file = NoFile
    /\ sink = NoSink
    /\ exit_code = <<>>

LocatorNext ==
    \/ connect_dev_start(MaxDev)
    \/ connect_dev_try
    \/ connect_dev_not_found

LocatorSpec == LocatorInit /\ [][LocatorNext]_vars

(***************************************************************************)
(* find_port_sns on its own: connect_dev has found the device on the only   *)
(* endpoint, main has reached line 304, and the behaviour ends when         *)
(* find_port_sns returns or raises.                                         *)
(***************************************************************************)
ResolverInit ==
    /\ pc = "find_port_sns"
    /\ i = 0
    /\ ports = <<>>
    /\ k = 1
    /\ tried = <<>>
    /\ openT = {[dev |-> 1, kind |-> "ser"], [dev |-> 1, kind |-> "ph"]}
    /\ leaked = FALSE
    /\ portHandler = PortHandler(1)
    /\ regs = NoRegs
    /\ idx = 1
    /\ port_name = "None"
    /\ heat = 1
    /\ ri = 0
    /\ sensor_data_pairs = None
    /\ bus = <<Txn("ping", 1, 0)>>
    /\ failed = {}
    /\ allOk = TRUE
    /\ file = NoFile
    /\ sink = NoSink
    /\ exit_code = <<>>

ResolverNext ==
    \/ find_port_sns_start(MaxSpecial, ReadOutcomes)
    \/ find_port_sns_read
    \/ find_port_sns_not_found

ResolverSpec == ResolverInit /\ [][ResolverNext]_vars

(***************************************************************************)
(* write_data_to_file and verify_data_written on their own, called in any   *)
(* order on one path.                                                       *)
(***************************************************************************)
\* the largest value a 16-bit half of a data word takes
MaxReading == 2^16 - 1

\* the reading pairs a batch is made of
Pairs == { <<0, MaxReading>>, <<12, 7>> }

Batches == UNION { [1..n -> Pairs] : n \in 0..MaxPairs }

\* the file before the first call: absent, present and empty, or holding
\* text that did not come from write_data_to_file
InitialFiles ==
    { NoFile,
      [exists |-> TRUE, content |-> <<>>],
      [exists |-> TRUE, content |-> <<"notes">>],
      [exists |-> TRUE, content |-> <<SENTINEL>>],
      [exists |-> TRUE, content |-> <<"notes", NL, SP, SENTINEL, SP, NL>>],
      [exists |-> TRUE, content |-> <<SENTINEL, NL, NL>>] }

SinkInit ==
    /\ pc = "sink"
    /\ i = 0
    /\ ports = <<>>
    /\ k = 1
    /\ tried = <<>>
    /\ openT = {}
    /\ leaked = FALSE
    /\ portHandler = None
    /\ regs = NoRegs
    /\ idx = 1
    /\ port_name = "None"
    /\ heat = 1
    /\ ri = 0
    /\ sensor_data_pairs = None
    /\ bus = <<>>
    /\ failed = {}
    /\ allOk = TRUE
    /\ file \in InitialFiles
    /\ sink = [NoSink EXCEPT !.first = file]
    /\ exit_code = <<>>

pipelineVars == <<pc, i, connectVars, scanVars, sessionVars, bus, exit_code>>

\* a call write_data_to_file(filename, data)
sink_write ==
    /\ pc = "sink"
    /\ sink.appends < MaxAppends
    /\ \E data \in Batches :
        /\ file' = write_data_to_file(file, data)
        /\ sink' = [sink EXCEPT !.appends = @ + 1, !.last = "write",
                                !.before = sink.last, !.data = data,
                                !.verified = "none",
                                !.written = Append(@, data)]
    /\ UNCHANGED pipelineVars

\* a call verify_data_written(filename)
sink_verify ==
    /\ pc = "sink"
    /\ sink.last # "verify"
    /\ sink' = [sink EXCEPT !.last = "verify", !.before = sink.last,
                            !.verified = verify_data_written(file)]
    /\ UNCHANGED <<file, pipelineVars>>

SinkNext == sink_write \/ sink_verify

SinkSpec == SinkInit /\ [][SinkNext]_vars

(***************************************************************************)
(* main from line 308 on, taken on its own: what it does with the value    *)
(* bound to sensor_data_pairs at line 307 and with the result file.  The    *)
(* value is None, which is what read_sensor_data returns, or a list of      *)
(* pairs, empty or not, which is what its commented-out return statement    *)
(* (line 267) would hand over.  The run so far found the device, sensor 46  *)
(* on Port1, heated, started the measurement and read the data words.       *)
(***************************************************************************)
ReturnValues == {None} \cup { PyList(b) : b \in Batches }

WordRead(n, word) == Txn("read4", DX_SENSORS_DATA_FIRST + (n * 4), word)

\* the log of the run when main reaches line 308; aborted: the second data
\* word came back with a failure
RunLog(aborted) ==
    << Txn("ping", 1, 0),
       Txn("read2", PORT_REGISTERS_RANGES[1].SNS_ID, 0),
       Txn("write2", PORT_REGISTERS_RANGES[1].SEL_RANGE, RANGE_1) >>
    \o [ n \in 1..HEAT_ROUNDS |-> Txn("ping", DXL_ID, 0) ]
    \o << Txn("confirm", 0, 0), Txn("write1", DX_MEAS_START_STOP, 1) >>
    \o (IF aborted
        THEN << WordRead(0, 2 * 2^16 + 1), WordRead(1, 0) >>
        ELSE [ n \in 1..DATA_WORDS |-> WordRead(n - 1, 2 * 2^16 + 1) ])

TailInit ==
    /\ pc = "main_308"
    /\ i = 0
    /\ ports = <<>>
    /\ k = 1
    /\ tried = <<>>
    /\ openT = {Handle(1, "ser"), Handle(1, "ph")}
    /\ leaked = FALSE
    /\ portHandler = PortHandler(1)
    /\ regs = NoRegs
    /\ idx = 1
    /\ port_name = PORT_REGISTERS_RANGES[1].name
    /\ heat = HEAT_ROUNDS + 1
    /\ \E aborted \in BOOLEAN :
        /\ bus = RunLog(aborted)
        /\ failed = IF aborted THEN {"read"} ELSE {}
        /\ allOk = ~aborted
        /\ ri = IF aborted THEN 1 ELSE DATA_WORDS
        /\ sensor_data_pairs \in IF aborted THEN {None} ELSE ReturnValues
    /\ file \in InitialFiles
    /\ sink = NoSink
    /\ exit_code = <<>>

TailNext == main_308 \/ finalize \/ driver_prompt

TailSpec == TailInit /\ [][TailNext]_vars

(***************************************************************************)
(* The whole program when it is not held up: every transaction returns and  *)
(* the operator answers every prompt, so a step that can be taken is taken. *)
(***************************************************************************)
FairSpec == Spec /\ WF_vars(Next)

(***************************************************************************)
(* Properties.                                                              *)
(***************************************************************************)
IsRangeWrite(t) ==
    /\ t.op = "write2"
    /\ t.addr \in { PORT_REGISTERS_RANGES[j].SEL_RANGE : j \in Entries }
IsStartWrite(t) == t.op = "write1" /\ t.addr = DX_MEAS_START_STOP /\ t.val = 1
IsStopWrite(t) == t.op = "write2" /\ t.addr = DX_MEAS_START_STOP /\ t.val = 0
IsResetWrite(t) == t.op = "write1" /\ t.addr = DX_RESET_CMD /\ t.val = 1
IsDataRead(t) == t.op = "read4"
IsIdRead(t) == t.op = "read2"

\* C1: in a run whose measurement-start write failed, no sensor-data read,
\* no measurement-stop write and no reset write is issued after that write.
C1_StartFailureAborts ==
    \A p \in DOMAIN bus :
        (IsStartWrite(bus[p]) /\ "start" \in failed)
        => \A q \in DOMAIN bus :
             q > p => /\ ~IsDataRead(bus[q])
                      /\ ~IsStopWrite(bus[q])
                      /\ ~IsResetWrite(bus[q])

\* C2: a run in which the device was located, the port resolved and every
\* transaction succeeded without a device error has, when it ends, appended
\* the readings to the file and issued the measurement-stop write and then
\* the reset write.
C2_SuccessPathReachesReset ==
    (pc = "driver_prompt" /\ portHandler # None /\ port_name # "None" /\ allOk)
    => /\ file.exists
       /\ \E p, q \in DOMAIN bus :
            p < q /\ IsStopWrite(bus[p]) /\ IsResetWrite(bus[q])

\* C3: in a run whose range-selection write failed, no ping, no wait for the
\* operator's confirmation, no measurement-start write and no sensor-data
\* read follows that write.
C3_RangeFailureAborts ==
    \A p \in DOMAIN bus :
        (IsRangeWrite(bus[p]) /\ "range" \in failed)
        => \A q \in DOMAIN bus :
             q > p => /\ bus[q].op \notin {"ping", "confirm"}
                      /\ ~IsStartWrite(bus[q])
                      /\ ~IsDataRead(bus[q])

\* the registry entries whose register reads back the target with Success
Matches(j) == regs[j].comm = SUCCESS /\ regs[j].val = SNS_ETHANOL_ID
MatchSet == { j \in Entries : Matches(j) }
\* the sensor-id reads issued so far
IdReads == SelectSeq(bus, IsIdRead)
ScanEnded == pc \in {"main_305", "crashed"}

\* C4: when the scan is over, if exactly one entry reads back the target the
\* scan has returned that entry's port, and if none does it has returned
\* None after a read of each of the eight entries.
C4_ResolveUnique ==
    ScanEnded =>
        /\ Cardinality(MatchSet) = 1
             => /\ pc = "main_305"
                /\ \E j \in MatchSet : port_name = PORT_REGISTERS_RANGES[j].name
        /\ MatchSet = {}
             => /\ pc = "main_305"
                /\ port_name = "None"
                /\ Len(IdReads) = Len(PORT_REGISTERS_RANGES)

C6_DeviceErrorNeverStops ==
    [][ (pc = "scan" /\ idx <= Len(PORT_REGISTERS_RANGES)
           /\ regs[idx].comm = SUCCESS /\ regs[idx].err # 0)
        => IF regs[idx].val = SNS_ETHANOL_ID
           THEN pc' = "main_305" /\ port_name' = PORT_REGISTERS_RANGES[idx].name
           ELSE pc' = "scan" /\ idx' = idx + 1 ]_vars

\* C7: a read that returns any communication result other than Success is
\* skipped: the scan goes on with the next entry and nothing is returned.
C7_CommErrorSkips ==
    [][ (pc = "scan" /\ idx <= Len(PORT_REGISTERS_RANGES)
           /\ regs[idx].comm # SUCCESS)
        => pc' = "scan" /\ idx' = idx + 1 /\ port_name' = port_name ]_vars

\* the usbserial endpoints of the list connect_dev iterates, in its order
Candidates == SelectSeq(ports, pattern_match)
Responded(t) == t.res = <<COMM_SUCCESS>>
Returned == pc = "main_303"

\* C8: the candidates are tried in ascending order of their names; nothing is
\* tried or pinged after a ping has returned Success; the handle returned is
\* bound to that endpoint, every candidate before it was tried; and (None,
\* None) is returned only after every candidate was tried and none responded.
C8_FirstRespondingCandidate ==
    /\ \A a, b \in DOMAIN tried : a < b => tried[a].dev < tried[b].dev
    /\ \A a \in DOMAIN tried : a < Len(tried) => ~Responded(tried[a])
    /\ \A p \in DOMAIN bus :
         bus[p].op = "ping" => \E a \in DOMAIN tried : tried[a].dev = bus[p].addr
    /\ (Returned /\ portHandler # None)
         => /\ tried # <<>>
            /\ Responded(tried[Len(tried)])
            /\ portHandler.dev = tried[Len(tried)].dev
            /\ \A c \in DOMAIN Candidates :
                 Candidates[c] <= portHandler.dev
                   <=> \E a \in DOMAIN tried : tried[a].dev = Candidates[c]
    /\ (Returned /\ portHandler = None)
         => /\ Len(tried) = Len(Candidates)
            /\ \A a \in DOMAIN tried :
                 tried[a].dev = Candidates[a] /\ ~Responded(tried[a])

\* C8 witness: three candidates, the first does not answer the ping, the
\* second does, the third is never tried
C8_Witness ==
    /\ Returned
    /\ Len(Candidates) = 3
    /\ Len(tried) = 2
    /\ tried[1].res = <<RX_TIMEOUT>>
    /\ portHandler = PortHandler(Candidates[2])

\* C9: before each candidate is tried nothing is open; when connect_dev
\* returns a handle the only endpoint with an open transport is the matched
\* one, and when it returns (None, None) nothing is open.
C9_TransportOwnership ==
    /\ pc = "connect_dev" => openT = {}
    /\ Returned =>
         IF portHandler # None
         THEN { h.dev : h \in openT } = {portHandler.dev}
         ELSE openT = {}

\* C10: verify_data_written called right after write_data_to_file returns
\* True, whatever the file was and whatever the batch; called when no file
\* exists it returns False.
C10_AppendThenVerify ==
    /\ (sink.last = "verify" /\ sink.before = "write") => sink.verified = "True"
    /\ (sink.last = "verify" /\ ~file.exists) => sink.verified = "False"

\* C10 witness: an empty batch appended to a file that holds an earlier
\* batch, then verified
C10_Witness ==
    /\ sink.last = "verify"
    /\ sink.before = "write"
    /\ sink.appends = 2
    /\ sink.data = <<>>
    /\ sink.verified = "True"


(***************************************************************************)
(* C11: the result file only grows, and batches add up.                     *)
(***************************************************************************)
IsPrefix(s, t) == Len(s) <= Len(t) /\ SubSeq(t, 1, Len(s)) = s

RECURSIVE NumberedLines(_, _)
\* the lines of one batch, pair n on the line numbered n, from pair n on
NumberedLines(batch, n) ==
    IF n > Len(batch) THEN <<>>
    ELSE pair_line(n - 1, batch[n]) \o NumberedLines(batch, n + 1)

RECURSIVE BatchesInOrder(_)
\* each batch's lines from 1, then its own sentinel, batch after batch
BatchesInOrder(batches) ==
    IF batches = <<>> THEN <<>>
    ELSE NumberedLines(Head(batches), 1) \o <<NL, SENTINEL, NL>>
           \o BatchesInOrder(Tail(batches))

HeaderOnce ==
    IF ~sink.first.exists /\ sink.written # <<>> THEN header(FALSE) ELSE <<>>

\* C11: the content of the file before a call of write_data_to_file is a
\* prefix of its content after the call; the content is what the file held
\* before the first call, then the header once if and only if the file was
\* absent then, then for each batch in the order of the calls its pair lines
\* numbered from 1 and its sentinel.
C11_AppendOnlyAdditive ==
    [][ /\ IsPrefix(file.content, file'.content)
        /\ file'.content =
             sink'.first.content \o HeaderOnce' \o BatchesInOrder(sink'.written)
      ]_vars

\* two non-empty batches appended to a file that was absent
C11_Witness ==
    /\ pc = "sink"
    /\ ~sink.first.exists
    /\ Len(sink.written) = 2
    /\ sink.written[1] # <<>>
    /\ sink.written[2] # <<>>
    /\ sink.written[1] # sink.written[2]

(***************************************************************************)
(* C12: what the data-read step hands back.                                 *)
(***************************************************************************)
DataReads == SelectSeq(bus, IsDataRead)

\* the low and the high 16 bits of a 32-bit word
LowHigh(w) == << w % 2^16, (w \div 2^16) % 2^16 >>

\* C12: when all the data words of a run have been read, what
\* read_sensor_data returns to main is the list holding, for each word in
\* register order, the pair (low 16 bits, high 16 bits); the word 0x00020001
\* gives (1, 2).
C12_ReadingsDecoded ==
    (pc = "main_308" /\ "read" \notin failed /\ Len(DataReads) = DATA_WORDS)
        => /\ LowHigh(2 * 2^16 + 1) = <<1, 2>>
           /\ sensor_data_pairs =
                PyList([ n \in 1..DATA_WORDS |-> LowHigh(DataReads[n].val) ])

(***************************************************************************)
(* C13: a failed word read ends the whole read.                             *)
(***************************************************************************)
\* C13: once a data word has come back with a communication failure or a
\* device error, read_sensor_data has ended: that read is the last
\* transaction of the run (no later word is read), main holds no readings
\* (None, also when earlier words were read), and the result file has not
\* been written.
C13_ReadAbortsWhole ==
    "read" \in failed =>
        /\ pc \in {"main_308", "driver_prompt", "exited"}
        /\ IsDataRead(bus[Len(bus)])
        /\ Len(DataReads) <= DATA_WORDS
        /\ sensor_data_pairs = None
        /\ file = NoFile

\* the second word failed after the first was read, and the run has ended
C13_Witness ==
    /\ pc = "driver_prompt"
    /\ "read" \in failed
    /\ Len(DataReads) = 2
    /\ DataReads[1].val \in DataWords

(***************************************************************************)
(* C14: what a run leaves behind.                                           *)
(***************************************************************************)
\* C14: when main has returned (the driver is at its prompt) no transport
\* opened during that run is open, and a run starts with no transport open,
\* none left open by an earlier run, and the locals of a fresh run.
C14_RunReleasesTransports ==
    /\ pc = "driver_prompt" => openT = {}
    /\ pc = "main" =>
         /\ openT = {}
         /\ ~leaked
         /\ portHandler = None
         /\ port_name = "None"
         /\ sensor_data_pairs = None
         /\ bus = <<>>

(***************************************************************************)
(* C15: the verdict of verify_data_written.                                 *)
(***************************************************************************)
LastLine(f) ==
    LET lines == readlines(f.content, <<>>) IN lines[Len(lines)]

\* the file exists, has a line, and its last line is the control string and
\* nothing else, with or without the line's terminator
EndsWithExactSentinel(f) ==
    /\ f.exists
    /\ readlines(f.content, <<>>) # <<>>
    /\ LastLine(f) \in { <<SENTINEL>>, <<SENTINEL, NL>> }

\* C15: verify_data_written returns a boolean whatever the file: True if
\* the file exists and its last line is exactly "END OF DATA", False in
\* every other case, an existing file without any line and a last line with
\* white space around the control string included.
C15_VerifyIsExactBoolean ==
    sink.last = "verify" =>
        /\ sink.verified \in {"True", "False"}
        /\ sink.verified = "True" <=> EndsWithExactSentinel(file)

(***************************************************************************)
(* C16: the order of the transactions of one run.                           *)
(***************************************************************************)
IsHeatPing(t) == t.op = "ping" /\ t.addr = DXL_ID
IsConfirm(t) == t.op = "confirm"

HeatPingsBefore(q) == { p \in 1..(q - 1) : IsHeatPing(bus[p]) }

OrderStartAfterConfirm ==
    \A q \in DOMAIN bus :
        IsStartWrite(bus[q]) => \E p \in 1..(q - 1) : IsConfirm(bus[p])

OrderConfirmAfterHeat ==
    \A q \in DOMAIN bus :
        IsConfirm(bus[q]) => Cardinality(HeatPingsBefore(q)) = HEAT_ROUNDS

OrderHeatAfterRange ==
    \A q \in DOMAIN bus :
        IsHeatPing(bus[q]) =>
            /\ "range" \notin failed
            /\ \E p \in 1..(q - 1) : IsRangeWrite(bus[p])

OrderReadAfterStart ==
    \A q \in DOMAIN bus :
        IsDataRead(bus[q]) =>
            /\ "start" \notin failed
            /\ \E p \in 1..(q - 1) : IsStartWrite(bus[p])

OrderStopAfterData ==
    \A q \in DOMAIN bus :
        IsStopWrite(bus[q]) =>
            /\ "read" \notin failed
            /\ Cardinality({ p \in 1..(q - 1) : IsDataRead(bus[p]) }) = DATA_WORDS

OrderResetAfterStop ==
    \A q \in DOMAIN bus :
        IsResetWrite(bus[q]) => \E p \in 1..(q - 1) : IsStopWrite(bus[p])

\* C16: in the log of a run the start write comes after the operator's
\* confirmation, the confirmation after the six heating pings, the heating
\* after a successful range write, every sensor-data read after a successful
\* start write, the stop write after the data words were read, and the reset
\* write after the stop write.
C16_SessionOrder ==
    /\ OrderStartAfterConfirm
    /\ OrderConfirmAfterHeat
    /\ OrderHeatAfterRange
    /\ OrderReadAfterStart
    /\ OrderStopAfterData
    /\ OrderResetAfterStop

(***************************************************************************)
(* C17: the reset follows the stop write whatever the stop write returned.  *)
(***************************************************************************)
\* C17: every measurement-stop write in the log is followed at once by the
\* reset write, also when the stop write failed.
C17_ResetFollowsStop ==
    \A p \in DOMAIN bus :
        IsStopWrite(bus[p]) => (p < Len(bus) /\ IsResetWrite(bus[p + 1]))

\* the stop write failed and the reset write was issued after it
C17_Witness ==
    /\ "stop" \in failed
    /\ \E p \in DOMAIN bus : IsStopWrite(bus[p])
    /\ IsResetWrite(bus[Len(bus)])

(***************************************************************************)
(* C18: heating is never cut short.                                         *)
(***************************************************************************)
RangeWriteSucceeded ==
    /\ "range" \notin failed
    /\ \E p \in DOMAIN bus : IsRangeWrite(bus[p])

HeatPings == { p \in DOMAIN bus : IsHeatPing(bus[p]) }

\* C18: after a successful range write the run is either still heating,
\* with fewer than six pings sent, or it has sent exactly six pings and has
\* come to the wait for the operator's confirmation, whatever the pings
\* returned.
C18_HeatingRunsToConfirmation ==
    RangeWriteSucceeded =>
        IF pc = "heating"
        THEN /\ heat <= HEAT_ROUNDS
             /\ Cardinality(HeatPings) = heat - 1
        ELSE /\ Cardinality(HeatPings) = HEAT_ROUNDS
             /\ \/ pc = "pause_script"
                \/ \E p \in DOMAIN bus : IsConfirm(bus[p])

\* the wait for the operator is reached although a ping failed
C18_Witness ==
    /\ pc = "pause_script"
    /\ "ping" \in failed
    /\ Cardinality(HeatPings) = HEAT_ROUNDS

(***************************************************************************)
(* C19: the driver.                                                         *)
(***************************************************************************)
InRun == pc \notin {"driver_for", "driver_prompt", "exited", "crashed"}

\* at most three runs: a run is under way only when fewer than three are done
AtMostThreeRuns == i <= RUNS /\ (InRun => i < RUNS)

\* the driver's loop ends only after a run: at the prompt, or when the
\* three runs are done
ExitsAfterARun ==
    (pc # "exited" /\ pc' = "exited") =>
        /\ exit_code' = <<0>>
        /\ pc = "driver_prompt" \/ (pc = "driver_for" /\ i = RUNS)

\* every run ends at the driver's prompt
RunEndsAtPrompt == (InRun /\ ~InRun') => pc' = "driver_prompt"

\* once the process has exited nothing more happens
NoRunAfterExit == pc = "exited" => (pc' = "exited" /\ bus' = bus /\ i' = i)

Terminated == pc \in {"exited", "crashed"}

\* C19: the driver starts at most three runs and at least one; each run is
\* followed by the wait for the operator's answer; the process exits with
\* status 0 from that wait (answer 'e') or after the third run, and starts
\* no run afterwards; when every transaction returns and every prompt is
\* answered, the process terminates.
C19_DriverRunsAndTerminates ==
    /\ []AtMostThreeRuns
    /\ [][ExitsAfterARun /\ RunEndsAtPrompt /\ NoRunAfterExit]_vars
    /\ <>Terminated

(***************************************************************************)
(* C20: what the stop and reset writes depend on.                           *)
(***************************************************************************)
IsSuffix(s, t) == Len(s) <= Len(t) /\ SubSeq(t, Len(t) - Len(s) + 1, Len(t)) = s

StopOrResetIssued ==
    \E p \in DOMAIN bus : IsStopWrite(bus[p]) \/ IsResetWrite(bus[p])

NonEmptyReadings == sensor_data_pairs # None /\ sensor_data_pairs.v # <<>>

\* the readings of this run are the last batch of the file and the check of
\* the file says True
ReadingsWrittenAndVerified ==
    /\ NonEmptyReadings
    /\ IsSuffix(NumberedLines(sensor_data_pairs.v, 1) \o <<NL, SENTINEL, NL>>,
                file.content)
    /\ verify_data_written(file) = "True"

StartWriteSucceeded ==
    /\ "start" \notin failed
    /\ \E p \in DOMAIN bus : IsStartWrite(bus[p])

\* C20: the stop write and the reset write are in the log of a run only if
\* that run got non-empty readings, appended them to the file and had the
\* file verified; a run that got no readings (the read was aborted or gave
\* nothing) ends without either write, with the measurement it started
\* still on.
C20_StopResetGated ==
    /\ StopOrResetIssued => ReadingsWrittenAndVerified
    /\ (pc = "driver_prompt" /\ StartWriteSucceeded /\ ~NonEmptyReadings)
         => ~StopOrResetIssued

\* a run whose start write succeeded and whose read was aborted has ended
\* without stop and reset
C20_Witness ==
    /\ pc = "driver_prompt"
    /\ StartWriteSucceeded
    /\ "read" \in failed
    /\ sensor_data_pairs = None
    /\ ~StopOrResetIssued

====
